---- MODULE Spec2Model ----
(***************************************************************************)
(* renamer: an interactive batch file renamer (src/src/main.rs).           *)
(*                                                                         *)
(* Strings are sequences of one-character strings.  The regex crate is     *)
(* modelled for the dialect  literal  .  $  \x  *  |  ( )  with the        *)
(* crate's leftmost-first (backtracking-order) match semantics; the glob   *)
(* crate and the filesystem are modelled for regular files and             *)
(* directories, with cwd "/".                                              *)
(***************************************************************************)
EXTENDS Integers, Sequences, FiniteSets, TLC

----------------------------------------------------------------------------
(* Strings *)

StartsWithAt(s, p, i) ==
    \* does p occur in s at position i
    /\ i >= 1
    /\ i + Len(p) - 1 <= Len(s)
    /\ \A k \in 1..Len(p) : s[i + k - 1] = p[k]

starts_with(s, p) == StartsWithAt(s, p, 1)

ends_with(s, p) == Len(p) <= Len(s) /\ StartsWithAt(s, p, Len(s) - Len(p) + 1)

Drop(s, n) == SubSeq(s, n + 1, Len(s))

RECURSIVE str_replace(_, _, _)
str_replace(s, from, to) ==
    \* str::replace: every non-overlapping occurrence of from, left to right
    IF s = <<>> THEN <<>>
    ELSE IF from # <<>> /\ StartsWithAt(s, from, 1)
         THEN to \o str_replace(Drop(s, Len(from)), from, to)
         ELSE <<Head(s)>> \o str_replace(Tail(s), from, to)

----------------------------------------------------------------------------
(* regex::Regex::new : pattern text -> syntax tree, or a syntax error *)

Meta == {".", "$", "\\", "*", "|", "(", ")"}

Lit(c) == [t |-> "lit", c |-> c]
AnyChar == [t |-> "any"]
EndText == [t |-> "eol"]
Empty == [t |-> "empty"]
Cat(l, r) == IF r.t = "empty" THEN l ELSE [t |-> "cat", l |-> l, r |-> r]
Alt(l, r) == [t |-> "alt", l |-> l, r |-> r]
Star(x) == [t |-> "star", x |-> x]
Grp(n, x) == [t |-> "grp", n |-> n, x |-> x]

PErr == [ok |-> FALSE]
POk(ast, i, n) == [ok |-> TRUE, ast |-> ast, i |-> i, n |-> n]

RECURSIVE ParseAlt(_, _, _), ParseCat(_, _, _), ParseAtom(_, _, _), ParseStars(_, _)

ParseStars(t, r) ==
    \* postfix repetition operators after an atom
    IF r.ok /\ r.i <= Len(t) /\ t[r.i] = "*"
    THEN ParseStars(t, POk(Star(r.ast), r.i + 1, r.n))
    ELSE r

CloseGroup(t, n, r) ==
    \* r: the parse of what follows "("
    IF r.ok /\ r.i <= Len(t) /\ t[r.i] = ")"
    THEN POk(Grp(n, r.ast), r.i + 1, r.n)
    ELSE PErr

ParseAtom(t, i, n) ==
    CASE t[i] = "(" -> CloseGroup(t, n, ParseAlt(t, i + 1, n + 1))
      [] t[i] = "\\" ->
           IF i + 1 <= Len(t) /\ t[i + 1] \in Meta
           THEN POk(Lit(t[i + 1]), i + 2, n)
           ELSE PErr
      [] t[i] = "." -> POk(AnyChar, i + 1, n)
      [] t[i] = "$" -> POk(EndText, i + 1, n)
      [] t[i] = "*" -> PErr
      [] OTHER -> POk(Lit(t[i]), i + 1, n)

JoinCat(r1, r2) ==
    IF ~r2.ok THEN PErr ELSE POk(Cat(r1.ast, r2.ast), r2.i, r2.n)

ThenCat(t, r1) ==
    \* r1: the parse of the first item of a concatenation
    IF ~r1.ok THEN PErr ELSE JoinCat(r1, ParseCat(t, r1.i, r1.n))

ParseCat(t, i, n) ==
    IF i > Len(t) \/ t[i] \in {"|", ")"} THEN POk(Empty, i, n)
    ELSE ThenCat(t, ParseStars(t, ParseAtom(t, i, n)))

JoinAlt(r1, r2) ==
    IF ~r2.ok THEN PErr ELSE POk(Alt(r1.ast, r2.ast), r2.i, r2.n)

ThenAlt(t, r1) ==
    \* r1: the parse of the first alternative
    IF ~r1.ok THEN PErr
    ELSE IF r1.i <= Len(t) /\ t[r1.i] = "|"
         THEN JoinAlt(r1, ParseAlt(t, r1.i + 1, r1.n))
         ELSE r1

ParseAlt(t, i, n) == ThenAlt(t, ParseCat(t, i, n))

Compiled(t, r) ==
    \* r: the parse of the whole text; groups counts the capturing groups,
    \* without the implicit whole-match group 0
    IF r.ok /\ r.i = Len(t) + 1
    THEN [ok |-> TRUE, ast |-> r.ast, groups |-> r.n - 1]
    ELSE [ok |-> FALSE, err |-> "syntax"]

RegexNew(t) ==
    \* Regex::new: Ok(regex) or Err(syntax error)
    Compiled(t, ParseAlt(t, 1, 1))

capture_names_len(regex) == regex.groups + 1

----------------------------------------------------------------------------
(* Matching: every way the tree matches s from position i, best first.     *)
(* A result is [e |-> position after the match, c |-> span of group 1 or   *)
(* <<>>].                                                                  *)

Captured(n, i, inner) ==
    \* the matches of a group's content, with the span of group 1 recorded
    [k \in 1..Len(inner) |->
        [e |-> inner[k].e, c |-> IF n = 1 THEN <<i, inner[k].e>> ELSE inner[k].c]]

RECURSIVE M(_, _, _, _), MThen(_, _, _)

MThen(rs, a, s) ==
    \* continue each partial match of rs with a, keeping preference order
    IF rs = <<>> THEN <<>>
    ELSE M(a, s, Head(rs).e, Head(rs).c) \o MThen(Tail(rs), a, s)

M(a, s, i, c) ==
    CASE a.t = "lit" ->
           IF i <= Len(s) /\ s[i] = a.c THEN <<[e |-> i + 1, c |-> c]>> ELSE <<>>
      [] a.t = "any" ->
           IF i <= Len(s) THEN <<[e |-> i + 1, c |-> c]>> ELSE <<>>
      [] a.t = "eol" ->
           IF i = Len(s) + 1 THEN <<[e |-> i, c |-> c]>> ELSE <<>>
      [] a.t = "empty" -> <<[e |-> i, c |-> c]>>
      [] a.t = "cat" -> MThen(M(a.l, s, i, c), a.r, s)
      [] a.t = "alt" -> M(a.l, s, i, c) \o M(a.r, s, i, c)
      [] a.t = "star" ->
           \* greedy: one more iteration that consumes something, else stop
           MThen(SelectSeq(M(a.x, s, i, c), LAMBDA r : r.e > i), a, s)
           \o <<[e |-> i, c |-> c]>>
      [] a.t = "grp" ->
           Captured(a.n, i, M(a.x, s, i, c))

RECURSIVE FindAt(_, _, _), FindHit(_, _, _, _)
FindAt(regex, s, from) ==
    \* leftmost-first match starting at or after from: [found, st, e, c]
    IF from > Len(s) + 1 THEN [found |-> FALSE]
    ELSE FindHit(regex, s, from, M(regex.ast, s, from, <<>>))

FindHit(regex, s, from, rs) ==
    \* rs: the matches that start at from, best first
    IF rs # <<>>
    THEN [found |-> TRUE, st |-> from, e |-> rs[1].e, c |-> rs[1].c]
    ELSE FindAt(regex, s, from + 1)

is_match(regex, s) == FindAt(regex, s, 1).found

----------------------------------------------------------------------------
(* Regex::replace_all with a string replacement ($-references expanded) *)

Digit == {"0", "1", "2", "3", "4", "5", "6", "7", "8", "9"}

WordChar ==
    Digit \cup {"_"} \cup
    {"a", "b", "c", "d", "e", "f", "g", "h", "i", "j", "k", "l", "m", "n",
     "o", "p", "q", "r", "s", "t", "u", "v", "w", "x", "y", "z"} \cup
    {"A", "B", "C", "D", "E", "F", "G", "H", "I", "J", "K", "L", "M", "N",
     "O", "P", "Q", "R", "S", "T", "U", "V", "W", "X", "Y", "Z"}

RECURSIVE WordRun(_, _)
WordRun(r, i) ==
    \* length of the longest run of [0-9A-Za-z_] of r that starts at i
    IF i <= Len(r) /\ r[i] \in WordChar THEN 1 + WordRun(r, i + 1) ELSE 0

RECURSIVE StripZeros(_)
StripZeros(d) == IF d # <<>> /\ Head(d) = "0" THEN StripZeros(Tail(d)) ELSE d

GroupText(s, m, name) ==
    \* the text of the group a reference names; a group that does not exist
    \* or did not take part in the match expands to the empty string
    IF \A k \in 1..Len(name) : name[k] \in Digit
    THEN CASE StripZeros(name) = <<>> -> SubSeq(s, m.st, m.e - 1)
           [] StripZeros(name) = <<"1">> ->
                IF m.c = <<>> THEN <<>> ELSE SubSeq(s, m.c[1], m.c[2] - 1)
           [] OTHER -> <<>>
    ELSE <<>>

RECURSIVE Expand(_, _, _, _), ExpandRef(_, _, _, _, _)
Expand(r, i, s, m) ==
    \* Captures::expand from position i of the replacement text r
    IF i > Len(r) THEN <<>>
    ELSE IF r[i] # "$" THEN <<r[i]>> \o Expand(r, i + 1, s, m)
    ELSE IF i + 1 <= Len(r) /\ r[i + 1] = "$" THEN <<"$">> \o Expand(r, i + 2, s, m)
    ELSE ExpandRef(r, i, s, m, WordRun(r, i + 1))

ExpandRef(r, i, s, m, n) ==
    \* a "$" at i followed by n characters of a group name
    IF n = 0 THEN <<"$">> \o Expand(r, i + 1, s, m)
    ELSE GroupText(s, m, SubSeq(r, i + 1, i + n)) \o Expand(r, i + 1 + n, s, m)

RECURSIVE ReplaceFrom(_, _, _, _, _, _), ReplaceHit(_, _, _, _, _, _, _)
ReplaceFrom(regex, s, rep, from, lastEnd, copied) ==
    \* the non-overlapping matches left to right
    ReplaceHit(regex, s, rep, from, lastEnd, copied, FindAt(regex, s, from))

ReplaceHit(regex, s, rep, from, lastEnd, copied, m) ==
    \* m: the next match; an empty match that touches the end of the
    \* previous match is skipped
    IF ~m.found THEN SubSeq(s, copied, Len(s))
    ELSE IF m.e = m.st /\ m.e = lastEnd
         THEN ReplaceFrom(regex, s, rep, from + 1, lastEnd, copied)
         ELSE SubSeq(s, copied, m.st - 1) \o Expand(rep, 1, s, m)
              \o ReplaceFrom(regex, s, rep, m.e, m.e, m.e)

replace_all(regex, s, rep) == ReplaceFrom(regex, s, rep, 1, 0, 1)

----------------------------------------------------------------------------
(* The two pattern compilers and the planner *)

get_matcher_regex(matcher_string) ==
    RegexNew(IF ~ends_with(matcher_string, <<"$">>)
             THEN matcher_string \o <<"$">>
             ELSE matcher_string)

NoGroupsMsg == "You don't have any capture groups for renaming?"
TooManyMsg == "Sorry, this can only deal with a single capture group at the moment!"

check_groups_off_by_one(regex) ==
    \* as check_groups, were the implicit group 0 not counted
    IF ~regex.ok THEN [ok |-> FALSE, err |-> "syntax"]
    ELSE IF capture_names_len(regex) = 1 THEN [ok |-> FALSE, err |-> NoGroupsMsg]
    ELSE IF capture_names_len(regex) > 3 THEN [ok |-> FALSE, err |-> TooManyMsg]
    ELSE regex

check_groups(regex) ==
    \* get_renamer_regex once Regex::new has returned regex
    IF ~regex.ok THEN [ok |-> FALSE, err |-> "syntax"]
    ELSE IF capture_names_len(regex) = 1 THEN [ok |-> FALSE, err |-> NoGroupsMsg]
    ELSE IF capture_names_len(regex) > 2 THEN [ok |-> FALSE, err |-> TooManyMsg]
    ELSE regex

get_renamer_regex(renamer_string) == check_groups(RegexNew(renamer_string))

change_pair(path, base_path, matcher_regex, replacement_string) ==
    \* the closure of get_change_pairs: one (source, destination) pair
    <<path,
      base_path \o replace_all(matcher_regex, str_replace(path, base_path, <<>>),
                               replacement_string)>>

get_change_pairs_reversed(paths, base_path, matcher_regex, replacement_string) ==
    \* as get_change_pairs, were the pairs collected last entry first
    [k \in 1..Len(paths) |->
        change_pair(paths[Len(paths) + 1 - k], base_path, matcher_regex,
                    replacement_string)]

get_change_pairs(paths, base_path, matcher_regex, replacement_string) ==
    [k \in 1..Len(paths) |->
        change_pair(paths[k], base_path, matcher_regex, replacement_string)]

----------------------------------------------------------------------------
(* Paths and the filesystem.  A filesystem is a function from the absolute *)
(* paths that exist to "dir" or to the content of a file.                  *)

Slash == <<"/">>

BadByte == "<ff>"  \* a byte of a file name that is not valid UTF-8

to_str(path) ==
    \* Path::to_str: None when the path is not valid UTF-8
    IF \E k \in 1..Len(path) : path[k] = BadByte
    THEN [some |-> FALSE]
    ELSE [some |-> TRUE, val |-> path]

RECURSIVE Norm(_)
Norm(p) ==
    \* repeated and trailing separators do not count in a path
    IF p = <<>> THEN <<>>
    ELSE IF Head(p) = "/" /\ (Len(p) = 1 \/ p[2] = "/") THEN
            IF Len(p) = 1 THEN <<>> ELSE Norm(Tail(p))
    ELSE <<Head(p)>> \o Norm(Tail(p))

Resolve(p) ==
    \* the absolute path p names, the working directory being "/"
    LET n == Norm(IF p # <<>> /\ Head(p) = "/" THEN p ELSE Slash \o p) IN
    IF n = <<>> THEN Slash ELSE n

RECURSIVE LastSlash(_, _)
LastSlash(p, i) == IF i = 0 \/ p[i] = "/" THEN i ELSE LastSlash(p, i - 1)

Parent(p) ==
    \* of an absolute normalised path
    LET k == LastSlash(p, Len(p)) IN IF k <= 1 THEN Slash ELSE SubSeq(p, 1, k - 1)

FileName(p) == Drop(p, LastSlash(p, Len(p)))

Under(q, d) ==
    \* q lies strictly below directory d
    /\ q # d
    /\ IF d = Slash THEN TRUE ELSE starts_with(q, d \o Slash)

exists(fs, path) ==
    \* Path::exists
    /\ path # <<>>
    /\ Resolve(path) \in DOMAIN fs
    /\ (ends_with(path, Slash) => fs[Resolve(path)] = "dir")

canonicalize(fs, path) ==
    IF exists(fs, path) THEN [ok |-> TRUE, val |-> Resolve(path)] ELSE [ok |-> FALSE]

Moved(q, s, d) == IF q = s THEN d ELSE d \o Drop(q, Len(s))

rename(fs, from, to) ==
    \* std::fs::rename: [ok, fs]; the filesystem is unchanged on failure
    LET s == Resolve(from)
        d == Resolve(to)
        fail == [ok |-> FALSE, fs |-> fs]
        tree == {q \in DOMAIN fs : q = s \/ Under(q, s)}
        kept == DOMAIN fs \ (tree \cup {d})
        moved == {Moved(q, s, d) : q \in tree}
    IN
    IF from = <<>> \/ to = <<>> \/ ~exists(fs, from) \/ s = Slash THEN fail
    ELSE IF Parent(d) \notin DOMAIN fs \/ fs[Parent(d)] # "dir" THEN fail
    ELSE IF ends_with(to, Slash) /\ fs[s] # "dir" THEN fail
    ELSE IF Under(d, s) THEN fail
    ELSE IF s = d THEN [ok |-> TRUE, fs |-> fs]
    ELSE IF d \in DOMAIN fs /\
            \/ (fs[s] = "dir") # (fs[d] = "dir")
            \/ (fs[d] = "dir" /\ \E q \in DOMAIN fs : Under(q, d))
         THEN fail
    ELSE [ok |-> TRUE,
          fs |-> [q \in kept \cup moved |->
                    IF q \in moved
                    THEN fs[CHOOSE o \in tree : Moved(o, s, d) = q]
                    ELSE fs[q]]]

----------------------------------------------------------------------------
(* glob: the entries below a directory, in alphabetical order *)

Ascii ==
    \* the characters of the model, in byte order
    <<"$", "(", ")", "*", ".", "/", "0", "1", "2", "3", "4", "5", "6", "7", "8",
      "9", "[", "\\", "]", "_", "a", "b", "c", "d", "e", "f", "g", "h", "i", "j",
      "k", "l", "m", "n", "o", "p", "q", "r", "s", "t", "u", "v", "w", "x", "y",
      "z", "|", BadByte>>

Rank(c) == CHOOSE k \in 1..Len(Ascii) : Ascii[k] = c

RECURSIVE StrLess(_, _)
StrLess(a, b) ==
    IF b = <<>> THEN FALSE
    ELSE IF a = <<>> THEN TRUE
    ELSE IF Head(a) # Head(b) THEN Rank(Head(a)) < Rank(Head(b))
    ELSE StrLess(Tail(a), Tail(b))

RECURSIVE Sorted(_)
Sorted(S) ==
    IF S = {} THEN <<>>
    ELSE LET m == CHOOSE x \in S : \A y \in S \ {x} : StrLess(x, y)
         IN <<m>> \o Sorted(S \ {m})

GlobPatternOk(pattern) ==
    \* glob::Pattern::new rejects a "[" that no "]" closes
    ~\E k \in 1..Len(pattern) :
        pattern[k] = "[" /\ ~\E j \in (k + 1)..Len(pattern) : pattern[j] = "]"

RECURSIVE Walk(_, _, _, _), WalkAll(_, _, _, _)

Walk(fs, unreadable, dir, shown) ==
    \* the entries below dir, shown under the prefix the pattern gave.  A
    \* directory that cannot be read yields one Err item.
    LET names == {FileName(q) : q \in {q \in DOMAIN fs : Parent(q) = dir /\ q # dir}}
    IN WalkAll(fs, unreadable, [dir |-> dir, shown |-> shown], Sorted(names))

WalkAll(fs, unreadable, at, names) ==
    IF names = <<>> THEN <<>>
    ELSE LET q == (IF at.dir = Slash THEN <<>> ELSE at.dir) \o Slash \o Head(names)
             sh == at.shown \o Slash \o Head(names)
             below == IF fs[q] # "dir" THEN <<>>
                      ELSE IF q \in unreadable THEN <<[ok |-> FALSE, path |-> sh]>>
                      ELSE Walk(fs, unreadable, q, sh)
         IN <<[ok |-> TRUE, path |-> sh]>> \o below
            \o WalkAll(fs, unreadable, at, Tail(names))

get_files(fs, unreadable, filepath) ==
    \* Some(Paths) or None; the paths are given as the iterator yields them
    LET pattern == IF ends_with(filepath, Slash)
                   THEN filepath \o <<"*", "*", "/", "*">>
                   ELSE filepath \o <<"/", "*", "*", "/", "*">>
        prefix == IF ends_with(filepath, Slash)
                  THEN SubSeq(filepath, 1, Len(filepath) - 1)
                  ELSE filepath
    IN IF ~GlobPatternOk(pattern) THEN [some |-> FALSE]
       ELSE [some |-> TRUE,
             paths |-> IF exists(fs, filepath) /\ fs[Resolve(filepath)] = "dir"
                          /\ Resolve(filepath) \notin unreadable
                       THEN Walk(fs, unreadable, Resolve(filepath), prefix)
                       ELSE <<>>]

----------------------------------------------------------------------------
(* The session: state *)

VARIABLES
    args,           \* Args: [filepath]
    fs,             \* the filesystem
    unreadable,     \* directories whose listing fails
    pc,             \* where main is blocked: start, prompt_matcher,
                    \* prompt_renamer, prompt_replacement, menu, applying, exited
    exit_code,      \* process status once exited (101: panic), -1 while running
    base_path,      \* canonicalized root, <<>> until it is set
    config,         \* Config
    matched_paths,  \* local of the loop body
    renamer_regex,  \* local of the loop body
    changes,        \* local of the loop body
    table,          \* rows handed to the table printer
    menu_result,    \* local of the loop body: what Select returned
    apply_i,        \* index of the pair apply_changes handles next
    out,            \* per-pair reports printed by the last apply_changes
    applies,        \* number of batches applied (bounded)
    prompt_result,  \* what the last interact_text returned
    fs_before,      \* the filesystem when apply_changes was last called
    menu_items,     \* local of the loop body: the items of the menu
    probe           \* a pure function applied to drawn inputs

vars == <<args, fs, unreadable, pc, exit_code, base_path, config, matched_paths,
          renamer_regex, changes, table, menu_result, apply_i, out, applies,
          prompt_result, fs_before, menu_items, probe>>

MaxApplies == 2

\* strings of the program and of the scenarios
S_p == <<"/", "p">>
S_jpeg == <<"j", "p", "e", "g">>
S_jpg == <<"j", "p", "g">>
S_a_jpeg == <<"/", "p", "/", "a", ".", "j", "p", "e", "g">>
S_b_jpeg == <<"/", "p", "/", "b", ".", "j", "p", "e", "g">>
S_a_jpg == <<"/", "p", "/", "a", ".", "j", "p", "g">>
S_n_txt == <<"/", "p", "/", "n", ".", "t", "x", "t">>
S_d_jpeg == <<"/", "p", "/", "d", ".", "j", "p", "e", "g">>
S_pp == <<"/", "p", "/", "p">>

ConfigDefault ==
    [matcher_string |-> <<".", "*", "\\", ".">> \o S_jpeg \o <<"$">>,
     renamer_string |-> <<"(">> \o S_jpeg \o <<")">>,
     replacement_string |-> S_jpg,
     show_unchanged |-> TRUE]

RootDirs == (Slash :> "dir") @@ (S_p :> "dir")

\* the filesystems a session may start on
ScPhotos ==  \* the photos example
    [fs |-> RootDirs @@ (S_a_jpeg :> "f1") @@ (S_b_jpeg :> "f2") @@ (S_n_txt :> "f3"),
     unreadable |-> {}]
ScPhotosJpg ==  \* the same with a.jpg already there
    [fs |-> ScPhotos.fs @@ (S_a_jpg :> "f4"), unreadable |-> {}]
ScNested ==
    \* a matching directory with a matching file in it, and a directory
    \* named like the root
    [fs |-> RootDirs @@ (S_d_jpeg :> "dir") @@ ((S_d_jpeg \o Drop(S_b_jpeg, 2)) :> "f1")
               @@ (S_pp :> "dir") @@ ((S_pp \o Drop(S_a_jpeg, 2)) :> "f2"),
     unreadable |-> {}]
ScBadName ==  \* a file whose name is not UTF-8
    [fs |-> RootDirs @@ (S_a_jpeg :> "f1") @@ ((S_p \o <<"/", BadByte>>) :> "f2"),
     unreadable |-> {}]
ScUnreadable ==  \* a directory that cannot be listed
    [fs |-> RootDirs @@ (S_a_jpeg :> "f1") @@ (S_pp :> "dir")
               @@ ((S_pp \o Drop(S_b_jpeg, 2)) :> "f2"),
     unreadable |-> {S_pp}]

\* the command lines and filesystems a session may start with
Starts ==
    {[filepath |-> S_p, sc |-> sc] :
        sc \in {ScPhotos, ScPhotosJpg, ScNested, ScBadName, ScUnreadable}}
    \cup {[filepath |-> f, sc |-> ScPhotos] :
            f \in {S_p \o Slash, <<"p">>, <<"/", "q">>, <<"[">>}}

\* what the user may type at the three prompts, besides keeping the seed
MatcherInputs ==
    { <<".", "*">>,                             \* .*
      <<"(">>,                                  \* does not compile
      <<"q">> }                                 \* matches nothing
RenamerInputs ==
    { <<"\\", ".", "(">> \o S_jpeg \o <<")">>,  \* \.(jpeg)
      <<"(", ".", "\\", ".", ")">>,             \* (.\.)
      S_jpeg,                                   \* no group
      <<")">> }                                 \* does not compile
ReplacementInputs == { <<"c", ".">> }

InputErr == [ok |-> FALSE]
Typed(S) == {[ok |-> TRUE, val |-> v] : v \in S} \cup {InputErr}

NoProbe == [op |-> "none"]

Init ==
    /\ \E st \in Starts :
          /\ args = [filepath |-> st.filepath]
          /\ fs = st.sc.fs
          /\ unreadable = st.sc.unreadable
    /\ pc = "start"
    /\ exit_code = -1
    /\ base_path = <<>>
    /\ config = ConfigDefault
    /\ matched_paths = <<>>
    /\ renamer_regex = [ok |-> FALSE]
    /\ changes = <<>>
    /\ table = <<>>
    /\ menu_result = "unset"
    /\ apply_i = 0
    /\ out = <<>>
    /\ applies = 0
    /\ prompt_result = InputErr   \* nothing captured yet
    /\ fs_before = fs
    /\ menu_items = <<>>
    /\ probe = NoProbe

----------------------------------------------------------------------------
(* The session: operations *)

Keep(p, matcher_regex, rest) ==
    \* rest: what the entries after p come to
    IF rest.panicked THEN rest
    ELSE IF is_match(matcher_regex, to_str(p.path).val)
         THEN [panicked |-> FALSE, paths |-> <<p.path>> \o rest.paths]
         ELSE rest

RECURSIVE FilterPaths(_, _)
FilterPaths(items, matcher_regex) ==
    \* the filter_map of get_matched_paths; unwrap panics on a name that
    \* is not UTF-8
    IF items = <<>> THEN [panicked |-> FALSE, paths |-> <<>>]
    ELSE IF ~Head(items).ok THEN FilterPaths(Tail(items), matcher_regex)
    ELSE IF ~to_str(Head(items).path).some THEN [panicked |-> TRUE]
    ELSE Keep(Head(items), matcher_regex, FilterPaths(Tail(items), matcher_regex))

get_matched_paths(f, unread, a, matcher_regex) ==
    FilterPaths(get_files(f, unread, a.filepath).paths, matcher_regex)

Panic ==
    /\ pc' = "exited"
    /\ exit_code' = 101

Exit(code) ==
    /\ pc' = "exited"
    /\ exit_code' = code

Startup ==
    /\ pc = "start"
    /\ IF ~get_files(fs, unreadable, args.filepath).some
       THEN Exit(1) /\ UNCHANGED base_path
       ELSE \E c \in {canonicalize(fs, args.filepath)} :
            IF ~c.ok THEN Exit(1) /\ UNCHANGED base_path
            ELSE /\ base_path' = c.val
                 /\ pc' = "prompt_matcher"
                 /\ UNCHANGED exit_code
    /\ UNCHANGED <<args, fs, unreadable, config, matched_paths, renamer_regex,
                   changes, table, menu_result, apply_i, out, applies,
                   prompt_result, fs_before, menu_items, probe>>

PromptMatcher(input) ==
    /\ pc = "prompt_matcher"
    /\ prompt_result' = input
    /\ \E matcher_string \in {IF input.ok THEN input.val ELSE config.matcher_string} :
       \E matcher_regex \in {get_matcher_regex(matcher_string)} :
       \E found \in {IF matcher_regex.ok
                      THEN get_matched_paths(fs, unreadable, args, matcher_regex)
                      ELSE [panicked |-> FALSE, paths |-> <<>>]} :
          /\ config' = [config EXCEPT !.matcher_string = matcher_string]
          /\ IF ~matcher_regex.ok
             THEN pc' = "prompt_matcher" /\ UNCHANGED <<exit_code, matched_paths>>
             ELSE IF found.panicked
             THEN Panic /\ UNCHANGED matched_paths
             ELSE IF found.paths = <<>>
             THEN pc' = "prompt_matcher" /\ UNCHANGED <<exit_code, matched_paths>>
             ELSE /\ matched_paths' = found.paths
                  /\ pc' = "prompt_renamer"
                  /\ UNCHANGED exit_code
    \* the previous iteration's locals and reports are gone
    /\ renamer_regex' = [ok |-> FALSE]
    /\ changes' = <<>>
    /\ table' = <<>>
    /\ menu_result' = "unset"
    /\ out' = <<>>
    /\ menu_items' = <<>>
    /\ UNCHANGED <<args, fs, unreadable, base_path, apply_i, applies, fs_before,
                   probe>>

PromptRenamer(input) ==
    /\ pc = "prompt_renamer"
    /\ prompt_result' = input
    /\ \E renamer_string \in {IF input.ok THEN input.val ELSE config.renamer_string} :
       \E regex \in {get_renamer_regex(renamer_string)} :
          /\ config' = [config EXCEPT !.renamer_string = renamer_string]
          /\ IF regex.ok
             THEN pc' = "prompt_replacement" /\ renamer_regex' = regex
             ELSE pc' = "prompt_matcher" /\ UNCHANGED renamer_regex
    /\ UNCHANGED <<args, fs, unreadable, exit_code, base_path, matched_paths,
                   changes, table, menu_result, apply_i, out, applies,
                   fs_before, menu_items, probe>>

menu_apply_changed(pairs) ==
    \* as menu_apply, were only the pairs with a new destination counted
    Cardinality({k \in 1..Len(pairs) : pairs[k][2] # pairs[k][1]})

menu_apply(pairs) ==
    \* the number in the label "Apply changes to N files"
    Len(pairs)

menu_list(pairs, show_unchanged) ==
    <<"Change regexes",
      [label |-> "Apply changes to N files", n |-> menu_apply(pairs)],
      IF show_unchanged THEN "Hide unchanged files" ELSE "Show unchanged files",
      "Quit without making changes">>

table_rows(pairs, base) ==
    [k \in 1..Len(pairs) |-> <<base \o pairs[k][1], base \o pairs[k][2]>>]

PromptReplacementForgetting(input) ==
    \* as PromptReplacement, were a failed capture to leave an empty text
    /\ pc = "prompt_replacement"
    /\ prompt_result' = input
    /\ \E replacement_string \in {IF input.ok THEN input.val ELSE <<>>} :
       \E pairs \in {get_change_pairs(matched_paths, base_path, renamer_regex,
                                      replacement_string)} :
          /\ config' = [config EXCEPT !.replacement_string = replacement_string]
          /\ changes' = pairs
          /\ table' = table_rows(pairs, base_path)
          /\ menu_items' = menu_list(pairs, config.show_unchanged)
    /\ pc' = "menu"
    /\ UNCHANGED <<args, fs, unreadable, exit_code, base_path, matched_paths,
                   renamer_regex, menu_result, apply_i, out, applies, fs_before, probe>>

PromptReplacementStale(input) ==
    \* as PromptReplacement, were the pairs planned with the replacement the
    \* configuration held before the prompt
    /\ pc = "prompt_replacement"
    /\ prompt_result' = input
    /\ \E replacement_string \in
              {IF input.ok THEN input.val ELSE config.replacement_string} :
       \E pairs \in {get_change_pairs(matched_paths, base_path, renamer_regex,
                                      config.replacement_string)} :
          /\ config' = [config EXCEPT !.replacement_string = replacement_string]
          /\ changes' = pairs
          /\ table' = table_rows(pairs, base_path)
          /\ menu_items' = menu_list(pairs, config.show_unchanged)
    /\ pc' = "menu"
    /\ UNCHANGED <<args, fs, unreadable, exit_code, base_path, matched_paths,
                   renamer_regex, menu_result, apply_i, out, applies,
                   fs_before, probe>>

PromptReplacement(input) ==
    /\ pc = "prompt_replacement"
    /\ prompt_result' = input
    /\ \E replacement_string \in
              {IF input.ok THEN input.val ELSE config.replacement_string} :
       \E pairs \in {get_change_pairs(matched_paths, base_path, renamer_regex,
                                      replacement_string)} :
          /\ config' = [config EXCEPT !.replacement_string = replacement_string]
          /\ changes' = pairs
          /\ table' = table_rows(pairs, base_path)
          /\ menu_items' = menu_list(pairs, config.show_unchanged)
    /\ pc' = "menu"
    /\ UNCHANGED <<args, fs, unreadable, exit_code, base_path, matched_paths,
                   renamer_regex, menu_result, apply_i, out, applies, fs_before, probe>>

MenuResults == {"Err", "None", "Some(0)", "Some(1)", "Some(2)", "Some(3)"}

menu_arm_shifted(result) ==
    \* as menu_arm, were the first menu item taken for "Apply" as well
    CASE result \in {"Some(0)", "Some(1)"} -> "apply"
      [] result = "Some(2)" -> "toggle"
      [] result = "Some(3)" -> "exit"
      [] result = "None" -> "none"

menu_arm_toggling(result) ==
    \* as menu_arm, were the first menu item taken for the toggle as well
    CASE result = "Some(1)" -> "apply"
      [] result \in {"Some(0)", "Some(2)"} -> "toggle"
      [] result = "Some(3)" -> "exit"
      [] result = "None" -> "none"

menu_arm(result) ==
    \* the arm of the match on menu_result that is taken
    CASE result = "Some(1)" -> "apply"
      [] result = "Some(2)" -> "toggle"
      [] result = "Some(3)" -> "exit"
      [] result = "Some(0)" -> "other"
      [] result = "None" -> "none"

MenuSelect(result) ==
    /\ pc = "menu"
    /\ menu_result' = result
    /\ fs_before' = IF result # "Err" /\ menu_arm(result) = "apply"
                    THEN fs ELSE fs_before
    /\ IF result = "Err"
       THEN Panic /\ UNCHANGED <<config, apply_i, applies>>
       ELSE CASE menu_arm(result) = "apply" ->
                   /\ applies < MaxApplies
                   /\ applies' = applies + 1
                   /\ IF changes = <<>>
                      THEN pc' = "prompt_matcher" /\ UNCHANGED apply_i
                      ELSE pc' = "applying" /\ apply_i' = 1
                   /\ UNCHANGED <<config, exit_code>>
              [] menu_arm(result) = "toggle" ->
                   /\ config' = [config EXCEPT !.show_unchanged = ~config.show_unchanged]
                   /\ pc' = "prompt_matcher"
                   /\ UNCHANGED <<exit_code, apply_i, applies>>
              [] menu_arm(result) = "exit" ->
                   /\ Exit(0)
                   /\ UNCHANGED <<config, apply_i, applies>>
              [] OTHER ->
                   /\ pc' = "prompt_matcher"
                   /\ UNCHANGED <<config, exit_code, apply_i, applies>>
    /\ UNCHANGED <<args, fs, unreadable, base_path, matched_paths, renamer_regex,
                   changes, table, out, prompt_result, menu_items, probe>>

Renamed(r) == [fs |-> r.fs, outcome |-> IF r.ok THEN "ok" ELSE "failed"]

apply_one_unchecked(f, source_file, dest_file) ==
    \* as apply_one, without the test of the destination
    Renamed(rename(f, source_file, dest_file))

apply_one(f, source_file, dest_file) ==
    \* the closure of apply_changes: [fs, outcome]
    IF exists(f, dest_file)
    THEN [fs |-> f, outcome |-> "exists"]
    ELSE Renamed(rename(f, source_file, dest_file))

ApplyStepAborting ==
    \* as ApplyStep, were the batch given up at the first pair not renamed
    /\ pc = "applying"
    /\ \E r \in {apply_one(fs, changes[apply_i][1], changes[apply_i][2])} :
          /\ fs' = r.fs
          /\ out' = Append(out, [source |-> changes[apply_i][1],
                                 dest |-> changes[apply_i][2],
                                 outcome |-> r.outcome])
          /\ IF apply_i < Len(changes) /\ r.outcome = "ok"
             THEN apply_i' = apply_i + 1 /\ pc' = "applying"
             ELSE apply_i' = 0 /\ pc' = "prompt_matcher"
    /\ UNCHANGED <<args, unreadable, exit_code, base_path, config, matched_paths,
                   renamer_regex, changes, table, menu_result, applies,
                   prompt_result, fs_before, menu_items, probe>>

ApplyStep ==
    \* one turn of the for_each of apply_changes
    /\ pc = "applying"
    /\ \E r \in {apply_one(fs, changes[apply_i][1], changes[apply_i][2])} :
          /\ fs' = r.fs
          /\ out' = Append(out, [source |-> changes[apply_i][1],
                                 dest |-> changes[apply_i][2],
                                 outcome |-> r.outcome])
    /\ IF apply_i < Len(changes)
       THEN apply_i' = apply_i + 1 /\ pc' = "applying"
       ELSE apply_i' = 0 /\ pc' = "prompt_matcher"
    /\ UNCHANGED <<args, unreadable, exit_code, base_path, config, matched_paths,
                   renamer_regex, changes, table, menu_result, applies,
                   prompt_result, fs_before, menu_items, probe>>

Next ==
    \/ Startup
    \/ \E input \in Typed(MatcherInputs) : PromptMatcher(input)
    \/ \E input \in Typed(RenamerInputs) : PromptRenamer(input)
    \/ \E input \in Typed(ReplacementInputs) : PromptReplacement(input)
    \/ \E result \in MenuResults : MenuSelect(result)
    \/ ApplyStep

Spec == Init /\ [][Next]_vars

----------------------------------------------------------------------------
(* The pure functions on drawn inputs *)

MaxPatLen == 4      \* longest pattern text compiled
MaxPlanPatLen == 3  \* longest transformation pattern planned with
MaxStrLen == 2      \* longest file name

PatChars == {"e", ".", "$", "\\", "|", "(", ")", "*"}
NameChars == {"e", "g", "$"}

Strings(chars, n) == UNION {[1..k -> chars] : k \in 0..n}

ProbeBase == <<"/", "e">>
ProbePaths == {ProbeBase \o Slash \o n : n \in Strings(NameChars, MaxStrLen) \ {<<>>}}
ProbeLists ==
    {<<p1>> : p1 \in ProbePaths}
    \cup {<<p1, ProbeBase \o <<"/", "g", "e">>>> : p1 \in ProbePaths}
ProbeReplacements == {<<"g">>, <<"$", "1">>}

PureInit ==
    /\ args = [filepath |-> S_p]
    /\ fs = ScPhotos.fs
    /\ unreadable = {}
    /\ pc = "start"
    /\ exit_code = -1
    /\ base_path = <<>>
    /\ config = ConfigDefault
    /\ matched_paths = <<>>
    /\ renamer_regex = [ok |-> FALSE]
    /\ changes = <<>>
    /\ table = <<>>
    /\ menu_result = "unset"
    /\ apply_i = 0
    /\ out = <<>>
    /\ applies = 0
    /\ prompt_result = InputErr   \* nothing captured yet
    /\ fs_before = fs
    /\ menu_items = <<>>
    /\ probe = NoProbe

session == <<args, fs, unreadable, pc, exit_code, base_path, config, matched_paths,
             renamer_regex, changes, table, menu_result, apply_i, out, applies,
             prompt_result, fs_before, menu_items>>

ProbeMatcher ==
    /\ probe = NoProbe
    /\ \E text \in Strings(PatChars, MaxPatLen) :
          probe' = [op |-> "matcher", text |-> text, regex |-> get_matcher_regex(text)]
    /\ UNCHANGED session

ProbeRenamer ==
    /\ probe = NoProbe
    /\ \E text \in Strings(PatChars, MaxPatLen) :
          probe' = [op |-> "renamer", text |-> text, regex |-> get_renamer_regex(text)]
    /\ UNCHANGED session

ProbePlanner ==
    /\ probe = NoProbe
    /\ \E text \in Strings(PatChars, MaxPlanPatLen) :
       \E regex \in {get_renamer_regex(text)} :
          /\ regex.ok
          /\ \E paths \in ProbeLists, rep \in ProbeReplacements :
                probe' = [op |-> "pairs", text |-> text, regex |-> regex,
                          base |-> ProbeBase, paths |-> paths, rep |-> rep,
                          pairs |-> get_change_pairs(paths, ProbeBase, regex, rep)]
    /\ UNCHANGED session

PureNext == ProbeMatcher \/ ProbeRenamer \/ ProbePlanner

SpecPure == PureInit /\ [][PureNext]_vars

----------------------------------------------------------------------------
(* Properties *)

Report(k, outcome) ==
    [source |-> changes[k][1], dest |-> changes[k][2], outcome |-> outcome]

\* C1: a pair whose destination exists when it is processed is not renamed:
\* the filesystem (and so the source and the destination's content) is left
\* as it is and an "already exists" outcome is reported.
NeverOverwrites ==
    [][(pc = "applying" /\ exists(fs, changes[apply_i][2]))
          => (fs' = fs /\ out' = Append(out, Report(apply_i, "exists")))]_vars

\* C1 witness: a pair was skipped because an earlier pair of the same batch
\* had created its destination; its source is still there.
SkippedAfterEarlierPair ==
    \E i, j \in 1..Len(out) :
        /\ i < j
        /\ out[i].outcome = "ok"
        /\ out[j].outcome = "exists"
        /\ out[i].dest = out[j].dest
        /\ exists(fs, out[j].source)

\* C2: the filesystem changes only in a step of apply_changes, which runs
\* only after "Apply changes to N files" was selected in this cycle.
OnlyApplyMutates ==
    [][fs' # fs => (pc = "applying" /\ menu_result = "Some(1)")]_vars

\* C2 witness: a rename has been performed.
RenamePerformed ==
    /\ \E k \in 1..Len(out) : out[k].outcome = "ok"
    /\ fs \notin {sc.fs : sc \in {ScPhotos, ScPhotosJpg, ScNested, ScBadName,
                                 ScUnreadable}}

RelOf(path, base) == Drop(path, Len(base))

RECURSIVE SpanReplaceFrom(_, _, _, _, _, _), SpanReplaceHit(_, _, _, _, _, _, _)
SpanReplaceFrom(regex, s, lit, from, lastEnd, copied) ==
    SpanReplaceHit(regex, s, lit, from, lastEnd, copied, FindAt(regex, s, from))

SpanReplaceHit(regex, s, lit, from, lastEnd, copied, m) ==
    \* every match, with the span of its capture group replaced by lit and
    \* the rest of the match kept
    IF ~m.found THEN SubSeq(s, copied, Len(s))
    ELSE IF m.e = m.st /\ m.e = lastEnd
         THEN SpanReplaceFrom(regex, s, lit, from + 1, lastEnd, copied)
         ELSE SubSeq(s, copied, m.st - 1)
              \o (IF m.c = <<>> THEN SubSeq(s, m.st, m.e - 1)
                  ELSE SubSeq(s, m.st, m.c[1] - 1) \o lit \o SubSeq(s, m.c[2], m.e - 1))
              \o SpanReplaceFrom(regex, s, lit, m.e, m.e, m.e)

\* C3: in the destination of every Change Pair each match of the pattern
\* has only the span of its capture group replaced, by the replacement
\* taken literally.
ReplacesOnlyCaptureSpan ==
    probe.op = "pairs" =>
        \A k \in 1..Len(probe.paths) :
            str_replace(probe.paths[k], probe.base, <<>>)
                = RelOf(probe.paths[k], probe.base)
            => probe.pairs[k][2]
                 = probe.base \o SpanReplaceFrom(probe.regex,
                                                 RelOf(probe.paths[k], probe.base),
                                                 probe.rep, 1, 0, 1)

\* C4: a Matched Entry whose root-relative path does not match the
\* Transformation Pattern gets a destination equal to its source.
UnmatchedIsUnchanged ==
    pc = "menu" =>
        \A k \in 1..Len(changes) :
            ~is_match(renamer_regex, RelOf(Resolve(changes[k][1]), base_path))
            => Resolve(changes[k][2]) = Resolve(changes[k][1])

RECURSIVE Escaped(_, _)
Escaped(t, i) ==
    \* is the character at i of a pattern text the second one of an escape
    i > 1 /\ t[i - 1] = "\\" /\ ~Escaped(t, i - 1)

EndsInAnchor(t) == t # <<>> /\ t[Len(t)] = "$" /\ ~Escaped(t, Len(t))

SameRegex(r1, r2) ==
    /\ r1.ok = r2.ok
    /\ r1.ok => \A s \in Strings(NameChars, MaxStrLen) :
                    is_match(r1, s) = is_match(r2, s)

ReachesEnd(regex, s) ==
    \* some match of regex in s extends to the end of s
    \E i \in 1..(Len(s) + 1) :
        \E r \in {M(regex.ast, s, i, <<>>)} :
            \E k \in 1..Len(r) : r[k].e = Len(s) + 1

\* C5: a Selection Pattern text without an end-anchor compiles to what the
\* text with an end-anchor appended compiles to, a text with one compiles
\* unchanged, and every compiled pattern matches only up to the end of the
\* string.
SelectionIsAnchored ==
    probe.op = "matcher" =>
        /\ ~EndsInAnchor(probe.text)
               => SameRegex(probe.regex, RegexNew(probe.text \o <<"$">>))
        /\ EndsInAnchor(probe.text) => probe.regex = RegexNew(probe.text)
        /\ probe.regex.ok =>
               \A s \in Strings(NameChars, MaxStrLen) :
                   is_match(probe.regex, s) => ReachesEnd(probe.regex, s)

RECURSIVE OpenGroups(_, _)
OpenGroups(t, i) ==
    \* the number of unescaped "(" of a pattern text from position i on
    IF i > Len(t) THEN 0
    ELSE (IF t[i] = "(" /\ ~Escaped(t, i) THEN 1 ELSE 0) + OpenGroups(t, i + 1)

\* C6: a valid Transformation Pattern is accepted exactly when it has one
\* capturing group; with none it fails with the "no capture group" error,
\* with two or more with the "too many groups" error; an invalid pattern
\* fails with a compile error.
RenamerArity ==
    probe.op = "renamer" =>
        /\ ~RegexNew(probe.text).ok
               => (~probe.regex.ok /\ probe.regex.err = "syntax")
        /\ (RegexNew(probe.text).ok /\ OpenGroups(probe.text, 1) = 0)
               => (~probe.regex.ok /\ probe.regex.err = NoGroupsMsg)
        /\ (RegexNew(probe.text).ok /\ OpenGroups(probe.text, 1) >= 2)
               => (~probe.regex.ok /\ probe.regex.err = TooManyMsg)
        /\ probe.regex.ok
               <=> (RegexNew(probe.text).ok /\ OpenGroups(probe.text, 1) = 1)

\* C6 witness: a valid pattern with two groups was rejected as having too
\* many.
TwoGroupsRejected ==
    /\ probe.op = "renamer"
    /\ RegexNew(probe.text).ok
    /\ OpenGroups(probe.text, 1) = 2
    /\ ~probe.regex.ok
    /\ probe.regex.err = TooManyMsg

\* C7: apply_changes handles the pairs one by one in list order, each
\* exactly once whatever the outcome of the pairs before it, and the
\* session goes on to the next cycle after the last one.
BestEffortBatch ==
    [][pc = "applying" =>
          /\ Len(out) = apply_i - 1
          /\ \E outcome \in {"ok", "exists", "failed"} :
                out' = Append(out, Report(apply_i, outcome))
          /\ changes' = changes
          /\ apply_i < Len(changes) => (pc' = "applying" /\ apply_i' = apply_i + 1)
          /\ apply_i = Len(changes) => (pc' = "prompt_matcher" /\ exit_code' = -1)]_vars

\* C7 witness: a batch is through in which a pair was renamed after a pair
\* whose rename failed.
BatchWentOnAfterFailure ==
    /\ pc = "prompt_matcher"
    /\ Len(out) = Len(changes)
    /\ \E i, j \in 1..Len(out) :
          i < j /\ out[i].outcome = "failed" /\ out[j].outcome = "ok"

\* C8: the process ends only by the quit selection, with status 0, or by a
\* failure at startup before any prompt, with status 1.
ExitsOnlyByQuitOrStartup ==
    pc = "exited" =>
        \/ exit_code = 0 /\ menu_result = "Some(3)"
        \/ exit_code = 1 /\ base_path = <<>> /\ menu_result = "unset"
                         /\ config = ConfigDefault

\* C9: selecting the toggle flips show_unchanged and shows the menu for the
\* same Change Pairs again, with no prompt before it.
ToggleReturnsToPreview ==
    [][(pc = "menu" /\ menu_result' = "Some(2)") =>
          /\ config'.show_unchanged = ~config.show_unchanged
          /\ pc' = "menu"
          /\ changes' = changes]_vars

\* C10: a cancelled selection changes nothing and the menu is shown again,
\* with no prompt before it.
CancelRedrawsMenu ==
    [][(pc = "menu" /\ menu_result' = "None") =>
          /\ pc' = "menu"
          /\ changes' = changes
          /\ config' = config
          /\ fs' = fs]_vars

\* C11: at the menu, with show_unchanged false no row handed to the table
\* has a destination equal to its source, and with show_unchanged true the
\* table has one row per Change Pair, in the order of the pairs.
PreviewHonoursToggle ==
    pc = "menu" =>
        /\ ~config.show_unchanged =>
               \A k \in 1..Len(table) : table[k][2] # table[k][1]
        /\ config.show_unchanged => table = table_rows(changes, base_path)

SomeEntryMatches(items, regex) ==
    \* some enumerated entry has a path string that regex matches
    \E k \in 1..Len(items) :
        /\ items[k].ok
        /\ to_str(items[k].path).some
        /\ is_match(regex, to_str(items[k].path).val)

MatcherRejected(regex) ==
    \* the Selection Pattern does not compile, or no entry matches it
    \/ ~regex.ok
    \/ ~SomeEntryMatches(get_files(fs, unreadable, args.filepath).paths, regex)

Entered(seed) == IF prompt_result'.ok THEN prompt_result'.val ELSE seed

\* C12: when the Selection Pattern entered does not compile or matches no
\* entry, and when the Transformation Pattern entered does not compile or
\* has not exactly one group, the next step is the Selection Pattern prompt
\* again, nothing is planned or shown, and the configuration holds the text
\* entered.
ConfigErrorRestartsCycle ==
    [][/\ (pc = "prompt_matcher"
              /\ MatcherRejected(get_matcher_regex(config'.matcher_string)))
          => /\ pc' = "prompt_matcher"
             /\ config' = [config EXCEPT
                              !.matcher_string = Entered(config.matcher_string)]
             /\ changes' = <<>> /\ table' = <<>>
       /\ (pc = "prompt_renamer"
              /\ ~get_renamer_regex(config'.renamer_string).ok)
          => /\ pc' = "prompt_matcher"
             /\ config' = [config EXCEPT
                              !.renamer_string = Entered(config.renamer_string)]
             /\ changes' = <<>> /\ table' = <<>>]_vars

MatchedWith(matcher_regex) ==
    \* what the matching step of the cycle comes to with matcher_regex
    IF matcher_regex.ok
    THEN get_matched_paths(fs, unreadable, args, matcher_regex)
    ELSE [panicked |-> FALSE, paths |-> <<>>]

SeedMatchingDone(found) ==
    \* the step after the Selection Pattern prompt was taken with the seed
    /\ (~found.panicked /\ found.paths # <<>>)
          => (pc' = "prompt_renamer" /\ matched_paths' = found.paths)
    /\ (~found.panicked /\ found.paths = <<>>) => pc' = "prompt_matcher"
    /\ pc' = "exited" => found.panicked

SeedCompileDone(regex) ==
    \* the step after the Transformation Pattern prompt was taken with the seed
    IF regex.ok THEN pc' = "prompt_replacement" /\ renamer_regex' = regex
    ELSE pc' = "prompt_matcher"

\* C13: when the capture of a prompt fails, the configuration is left as it
\* was, and the cycle goes on with the value kept: the Selection Pattern is
\* compiled and matched, the Transformation Pattern is compiled, the Change
\* Pairs are planned with the replacement and the menu is shown.
CaptureFailureKeepsSeed ==
    [][(pc \in {"prompt_matcher", "prompt_renamer", "prompt_replacement"}
           /\ ~prompt_result'.ok)
          => /\ config' = config
             /\ pc = "prompt_matcher" =>
                   SeedMatchingDone(MatchedWith(get_matcher_regex(config.matcher_string)))
             /\ pc = "prompt_renamer" =>
                   SeedCompileDone(get_renamer_regex(config.renamer_string))
             /\ pc = "prompt_replacement" =>
                   /\ pc' = "menu"
                   /\ changes' = get_change_pairs(matched_paths, base_path,
                                                  renamer_regex,
                                                  config.replacement_string)]_vars

\* C13 witness: the menu is shown after a failed capture of the replacement,
\* with the texts typed in an earlier cycle still in the configuration.
MenuAfterFailedCapture ==
    /\ pc = "menu"
    /\ ~prompt_result.ok
    /\ config.replacement_string = <<"c", ".">>
    /\ config.matcher_string = <<".", "*">>
    /\ changes # <<>>

BatchDone ==
    \* apply_changes has returned and the next prompt is not yet answered
    pc = "prompt_matcher" /\ changes # <<>> /\ Len(out) = Len(changes)

\* C14: after a batch, every pair whose source existed and whose destination
\* did not exist when apply_changes was called has its destination existing
\* and its source gone.
ApplyMovesEveryFreePair ==
    BatchDone =>
        \A k \in 1..Len(changes) :
            (exists(fs_before, changes[k][1]) /\ ~exists(fs_before, changes[k][2]))
            => (exists(fs, changes[k][2]) /\ ~exists(fs, changes[k][1]))

PlanOf(f, cfg) ==
    \* the Change Pairs that the configuration cfg gives on the filesystem f
    get_change_pairs(
        get_matched_paths(f, unreadable, args,
                          get_matcher_regex(cfg.matcher_string)).paths,
        base_path, get_renamer_regex(cfg.renamer_string),
        cfg.replacement_string)

\* C15: the pairs shown at the menu and the pairs apply_changes works on are
\* those that the current configuration gives on the entries found in this
\* cycle (the filesystem as it is at the menu, as it was when apply_changes
\* was called).
NoStalePlan ==
    /\ pc = "menu" =>
          (changes = PlanOf(fs, config) /\ table = table_rows(changes, base_path))
    /\ pc = "applying" => changes = PlanOf(fs_before, config)

\* C15 witness: a second batch is being applied, planned after the
\* configuration was edited.
SecondBatchAfterEdit ==
    /\ pc = "applying"
    /\ applies = 2
    /\ config.matcher_string = <<".", "*">>
    /\ config.replacement_string = <<"c", ".">>
    /\ fs_before # fs

\* C16: selecting "Change regexes" leads to the Selection Pattern prompt with
\* the configuration as it was at the menu; selecting "Apply changes to N
\* files" leaves the configuration as it was through the whole batch, and
\* the Selection Pattern prompt follows the last pair.
MenuKeepsConfiguration ==
    [][/\ (pc = "menu" /\ menu_result' = "Some(0)")
             => (pc' = "prompt_matcher" /\ config' = config)
       /\ (pc = "menu" /\ menu_result' = "Some(1)")
             => (pc' \in {"applying", "prompt_matcher"} /\ config' = config)
       /\ pc = "applying"
             => /\ config' = config
                /\ pc' = IF apply_i < Len(changes) THEN "applying"
                         ELSE "prompt_matcher"]_vars

\* C16 witness: the Selection Pattern prompt is up after "Change regexes"
\* was selected, with an edited configuration.
BackAtPromptAfterChangeRegexes ==
    /\ pc = "prompt_matcher"
    /\ menu_result = "Some(0)"
    /\ config.matcher_string = <<".", "*">>
    /\ config.replacement_string = <<"c", ".">>
    /\ ~config.show_unchanged

MatchingItems(items, regex) ==
    \* the entries read whose path string regex matches, in the order given
    SelectSeq(items, LAMBDA it : /\ it.ok
                                 /\ to_str(it.path).some
                                 /\ is_match(regex, to_str(it.path).val))

PathsOf(items) == [k \in 1..Len(items) |-> items[k].path]

MatchedAre(want) ==
    \* the matching step ends with the paths want
    /\ pc' # "exited"
    /\ IF want = <<>> THEN pc' = "prompt_matcher"
       ELSE pc' = "prompt_renamer" /\ matched_paths' = want

\* C17: whenever the Selection Pattern compiles, the matching step goes
\* through, and the Matched Entries are the enumerated entries that were
\* read and whose path string, as enumerated, matches the compiled pattern,
\* in enumeration order; an entry that could not be read is left out
\* without stopping the others.
MatchingFiltersEnumeration ==
    [][(pc = "prompt_matcher" /\ get_matcher_regex(config'.matcher_string).ok)
          => MatchedAre(PathsOf(MatchingItems(
                 get_files(fs, unreadable, args.filepath).paths,
                 get_matcher_regex(config'.matcher_string))))]_vars

\* C18: the planning step gives one pair per Matched Entry, the i-th pair
\* having the i-th entry as its source; the list is a function of the root,
\* the compiled Transformation Pattern, the replacement and the Matched
\* Entries alone; and the filesystem is left as it is.
PlannerIsPureMap ==
    [][pc = "prompt_replacement" =>
          /\ Len(changes') = Len(matched_paths)
          /\ \A k \in 1..Len(matched_paths) : changes'[k][1] = matched_paths[k]
          /\ changes' = get_change_pairs(matched_paths, base_path, renamer_regex,
                                         config'.replacement_string)
          /\ fs' = fs
          /\ matched_paths' = matched_paths]_vars

\* C18 witness: three entries were planned, the first of them with a
\* destination that differs from it.
ThreePairsPlanned ==
    /\ pc = "menu"
    /\ Len(matched_paths) = 3
    /\ Len(changes) = 3
    /\ changes[1][2] # changes[1][1]
    /\ matched_paths[1] # matched_paths[3]

FirstWithDest(k) ==
    \* the first pair of the batch that has the destination of pair k
    CHOOSE i \in 1..k : /\ changes[i][2] = changes[k][2]
                        /\ \A h \in 1..(i - 1) : changes[h][2] # changes[k][2]

SameEntries(f, g) ==
    \* as many entries, and as many of each content
    /\ Cardinality(DOMAIN f) = Cardinality(DOMAIN g)
    /\ \A v \in {f[p] : p \in DOMAIN f} \cup {g[p] : p \in DOMAIN g} :
          Cardinality({p \in DOMAIN f : f[p] = v})
              = Cardinality({p \in DOMAIN g : g[p] = v})

\* C19: after a batch, of the pairs that share a destination which did not
\* exist when apply_changes was called, the first was renamed and every
\* later one was skipped as "already exists" with its source still there;
\* and the filesystem has as many entries, with the same contents, as
\* before.
CollisionsLoseNoFile ==
    BatchDone =>
        /\ \A k \in 1..Len(changes) :
              (FirstWithDest(k) < k /\ ~exists(fs_before, changes[k][2]))
              => /\ out[FirstWithDest(k)].outcome = "ok"
                 /\ out[k].outcome = "exists"
                 /\ exists(fs, changes[k][1])
        /\ SameEntries(fs, fs_before)

Unchanged(pairs) == {k \in 1..Len(pairs) : pairs[k][2] = pairs[k][1]}

\* C20: the number in the menu item "Apply changes to N files" counts the
\* pairs whose destination equals their source along with the others, and
\* when such a pair is applied with its source present nothing is renamed:
\* the filesystem is left as it is and "already exists" is reported.
UnchangedPairsAreInert ==
    [][/\ pc = "menu" =>
             menu_items[2].n = Cardinality(Unchanged(changes))
                 + Cardinality((1..Len(changes)) \ Unchanged(changes))
       /\ (pc = "applying" /\ apply_i \in Unchanged(changes)
                           /\ exists(fs, changes[apply_i][1]))
             => (fs' = fs /\ out' = Append(out, Report(apply_i, "exists")))]_vars

\* C20 witness: a batch of three that was counted as three held a pair with
\* its destination equal to its source, which was skipped with the file
\* still there.
UnchangedPairSkipped ==
    /\ menu_items # <<>>
    /\ menu_items[2].n = 3
    /\ \E k \in 1..Len(out) :
          /\ out[k].dest = out[k].source
          /\ out[k].outcome = "exists"
          /\ exists(fs, out[k].source)
    /\ \E k \in 1..Len(out) : out[k].outcome = "ok"

====
